---- MODULE Spec2Model ----
(***************************************************************************)
(* Model of the WhatTheLog graph engine: the SparseMatrix adjacency index  *)
(* (whatthelog/prefixtree/sparse_matrix.py), the State objects             *)
(* (whatthelog/prefixtree/state.py) and the Graph that owns them           *)
(* (whatthelog/prefixtree/graph.py).                                       *)
(*                                                                         *)
(* Strings are sequences of character codes, so that the sorted list of    *)
(* the SparseMatrix is ordered, searched and prefix-matched exactly as     *)
(* Python orders, searches and prefix-matches its str entries.             *)
(***************************************************************************)
EXTENDS Integers, Sequences, FiniteSets, TLC

(***************************************************************************)
(* Bounds of the model.                                                    *)
(***************************************************************************)
\* number of State objects the client code constructs
MaxObj == 3
\* template ids are 1..MaxTemplate
MaxTemplate == 3
\* the number of calls in a run of Spec, of SpecStates and of SpecIndex
MaxCalls == 6
MaxStatesCalls == 3
MaxIndexCalls == 8
\* the number of calls in a run of SpecMatrix
MaxMatrixCalls == 3
\* the number of calls in a run of SpecTrace
MaxTraceCalls == 6
\* the number of states of the graph of SpecLarge, and of calls in its runs
LargeSize == 11
MaxLargeCalls == 3
\* the number of calls in a run of SpecGeneral
MaxGeneralCalls == 6
\* the number of calls in a run of SpecIntern
MaxInternCalls == 6
\* the number of calls in a run of SpecCopy
MaxCopyCalls == 4
\* the number of calls in a run of SpecTree
MaxTreeCalls == 3
\* calls of a run that ends with build_from_dendrogram
MaxDendroCalls == 6
\* calls of a run that ends with the population of the Visualizer
MaxVisualCalls == 5

\* the value of a reference that is None
None == 0

(***************************************************************************)
(* Strings.                                                                *)
(***************************************************************************)
\* ord('.'), the separator of the SparseMatrix entries
separator == <<46>>

\* ord('0')
Zero == 48

RECURSIVE Str(_)
\* str(n) of a non-negative int: its decimal digits
Str(n) == IF n < 10 THEN <<Zero + n>> ELSE Str(n \div 10) \o <<Zero + (n % 10)>>

\* s.startswith(p)
StartsWith(s, p) == /\ Len(p) <= Len(s)
                    /\ SubSeq(s, 1, Len(p)) = p

\* a < b of two str values: lexicographic order on the character codes
StrLess(a, b) ==
    LET m == IF Len(a) < Len(b) THEN Len(a) ELSE Len(b)
        diff == {i \in 1..m : a[i] # b[i]}
    IN  IF diff = {} THEN Len(a) < Len(b)
        ELSE LET k == CHOOSE i \in diff : \A j \in diff : i <= j
             IN  a[k] < b[k]

\* the position of the first separator of s, or Len(s) + 1
FirstSep(s) ==
    LET seps == {i \in 1..Len(s) : s[i] = separator[1]}
    IN  IF seps = {} THEN Len(s) + 1
        ELSE CHOOSE i \in seps : \A j \in seps : i <= j

RECURSIVE ParseInt(_)
\* int(s) of a string of decimal digits
ParseInt(s) == IF Len(s) = 0 THEN 0
               ELSE 10 * ParseInt(SubSeq(s, 1, Len(s) - 1)) + (s[Len(s)] - Zero)

(***************************************************************************)
(* SparseMatrix: a sorted list of entries "source.destination.payload".    *)
(***************************************************************************)
\* the entry __setitem__ writes for key (s, d) and value v
Entry(s, d, v) == Str(s) \o separator \o Str(d) \o separator \o v

\* SparseMatrix.get_values: (start_node, end_node, edge_value) of an entry,
\* value.split('.', 2)
get_values(e) ==
    LET p1 == FirstSep(e)
        rest == SubSeq(e, p1 + 1, Len(e))
        p2 == FirstSep(rest)
    IN  <<ParseInt(SubSeq(e, 1, p1 - 1)),
          ParseInt(SubSeq(rest, 1, p2 - 1)),
          SubSeq(rest, p2 + 1, Len(rest))>>

RECURSIVE BisearchLoop(_, _, _, _)
\* the while loop of SparseMatrix.bisearch; low and high are 0-based
BisearchLoop(arr, target, low, high) ==
    IF high < low THEN Len(arr)
    ELSE LET ix == (low + high) \div 2
         IN  IF StartsWith(arr[ix + 1], target) THEN ix
             ELSE IF StrLess(target, arr[ix + 1])
                  THEN BisearchLoop(arr, target, low, ix - 1)
                  ELSE BisearchLoop(arr, target, ix + 1, high)

\* SparseMatrix.bisearch: 0-based index of an element that starts with
\* target, len(arr) when the search finds none
bisearch(arr, target) == BisearchLoop(arr, target, 0, Len(arr) - 1)

\* SparseMatrix.find_index: 0-based index of the entry of (s, d), or -1 for
\* Python's None
find_index(list, s, d) ==
    LET index == bisearch(list, Str(s) \o separator \o Str(d) \o separator)
    IN  IF index # Len(list) THEN index ELSE -1

\* SparseMatrix.__contains__
Contains(list, s, d) ==
    bisearch(list, Str(s) \o separator \o Str(d)) # Len(list)

RECURSIVE BisectRight(_, _, _, _)
\* bisect.bisect_right: the insertion point of x, after any equal element
BisectRight(list, x, lo, hi) ==
    IF lo >= hi THEN lo
    ELSE LET mid == (lo + hi) \div 2
         IN  IF StrLess(x, list[mid + 1])
             THEN BisectRight(list, x, lo, mid)
             ELSE BisectRight(list, x, mid + 1, hi)

\* bisect.insort_right
InsortRight(list, x) ==
    LET pos == BisectRight(list, x, 0, Len(list))
    IN  SubSeq(list, 1, pos) \o <<x>> \o SubSeq(list, pos + 1, Len(list))

\* __setitem__ without its lookup: the entry is always inserted
SetItemInsort(list, s, d, v) == InsortRight(list, Entry(s, d, v))

\* SparseMatrix.__setitem__
SetItem(list, s, d, v) ==
    LET index == find_index(list, s, d)
    IN  IF index = -1 THEN InsortRight(list, Entry(s, d, v))
        ELSE [list EXCEPT ![index + 1] = Entry(s, d, v)]

RECURSIVE SetAll(_, _, _, _)
\* sets every entry of moved again, in list order, with its source (side 1)
\* or its destination (side 2) replaced by new; a later write wins
SetAll(list, moved, side, new) ==
    IF Len(moved) = 0 THEN list
    ELSE LET v == get_values(Head(moved))
             s == IF side = 1 THEN new ELSE v[1]
             d == IF side = 2 THEN new ELSE v[2]
         IN  SetAll(SetItem(list, s, d, v[3]), Tail(moved), side, new)

\* SparseMatrix.change_parent_of_children: every entry whose source is
\* old_parent is redirected to originate from new_parent
change_parent_of_children(list, new_parent, old_parent) ==
    SetAll(SelectSeq(list, LAMBDA e : get_values(e)[1] # old_parent),
           SelectSeq(list, LAMBDA e : get_values(e)[1] = old_parent),
           1, new_parent)

\* SparseMatrix.change_children_of_parents: every entry whose destination
\* is old_child is redirected to point to new_child
change_children_of_parents(list, old_child, new_child) ==
    SetAll(SelectSeq(list, LAMBDA e : get_values(e)[2] # old_child),
           SelectSeq(list, LAMBDA e : get_values(e)[2] = old_child),
           2, new_child)

\* SparseMatrix.__getitem__: find_edge calls the two-parameter static method
\* get_values with one argument, so every call raises TypeError
GetItem(list, s, d) == "TypeError"

\* the (child_number, value) tuple __find_children appends for an entry
ChildOf(e) == <<get_values(e)[2], get_values(e)[3]>>

RECURSIVE ScanDown(_, _, _)
\* the first while loop of __find_children, from the 0-based idx downwards
ScanDown(search_list, prefix, idx) ==
    IF idx >= 0 /\ StartsWith(search_list[idx + 1], prefix)
    THEN <<ChildOf(search_list[idx + 1])>> \o ScanDown(search_list, prefix, idx - 1)
    ELSE <<>>

RECURSIVE ScanUp(_, _, _)
\* the second while loop of __find_children, from the 0-based idx upwards
ScanUp(search_list, prefix, idx) ==
    IF idx < Len(search_list) /\ StartsWith(search_list[idx + 1], prefix)
    THEN <<ChildOf(search_list[idx + 1])>> \o ScanUp(search_list, prefix, idx + 1)
    ELSE <<>>

\* Python's None as the result of a method that returns a list or None
NoneResult == [kind |-> "None"]

\* a Python list as the result of a method that returns a list or None
ListResult(items) == [kind |-> "list", items |-> items]

\* __find_children searching for str(item) without the separator, the way
\* __contains__ builds its prefix
find_children_no_separator(search_list, item) ==
    LET prefix == Str(item)
        index == bisearch(search_list, prefix)
    IN  IF index # Len(search_list)
        THEN ListResult(<<ChildOf(search_list[index + 1])>>
                        \o ScanDown(search_list, prefix, index - 1)
                        \o ScanUp(search_list, prefix, index + 1))
        ELSE NoneResult

\* SparseMatrix.__find_children: the (child_number, value) tuples of the
\* entries that start with str(item) + separator, or None
find_children(search_list, item) ==
    LET prefix == Str(item) \o separator
        index == bisearch(search_list, prefix)
    IN  IF index # Len(search_list)
        THEN ListResult(<<ChildOf(search_list[index + 1])>>
                        \o ScanDown(search_list, prefix, index - 1)
                        \o ScanUp(search_list, prefix, index + 1))
        ELSE NoneResult

\* item.split('.', 2) of an entry: the three strings parent, child, props
Split(item) ==
    LET p1 == FirstSep(item)
        rest == SubSeq(item, p1 + 1, Len(item))
        p2 == FirstSep(rest)
    IN  <<SubSeq(item, 1, p1 - 1), SubSeq(rest, 1, p2 - 1),
          SubSeq(rest, p2 + 1, Len(rest))>>

RECURSIVE ReverseUnswapped(_, _)
\* the loop of get_parents inserting f"{parent}.{child}.{props}"
ReverseUnswapped(copy, reverse) ==
    IF Len(copy) = 0 THEN reverse
    ELSE LET t == Split(Head(copy))
         IN  ReverseUnswapped(Tail(copy),
                     InsortRight(reverse, t[1] \o separator \o t[2] \o separator \o t[3]))

RECURSIVE Reverse(_, _)
\* the loop of get_parents: f"{child}.{parent}.{props}" of every item of the
\* copy is inserted into the sorted list reverse
Reverse(copy, reverse) ==
    IF Len(copy) = 0 THEN reverse
    ELSE LET t == Split(Head(copy))
         IN  Reverse(Tail(copy),
                     InsortRight(reverse, t[2] \o separator \o t[1] \o separator \o t[3]))

\* SparseMatrix.get_parents: the list of the parents of i
get_parents(list, i) ==
    LET children == find_children(Reverse(list, <<>>), i)
    IN  IF children.kind # "None"
        THEN [k \in 1..Len(children.items) |-> children.items[k][1]]
        ELSE <<>>

\* str(EdgeProperties()): the payload of a new edge, a pass count of 1
DefaultProps == Str(1)

(***************************************************************************)
(* State objects and the Graph.                                            *)
(***************************************************************************)
VARIABLES
    nobj,                 \* the State objects constructed so far are 1..nobj
    properties,           \* State.properties: the StateProperties of each object
    is_terminal,          \* State.is_terminal of each object
    edges,                \* Graph.edges.list, the list of the SparseMatrix
    states,               \* Graph.states: index -> State object
    state_indices_by_id,  \* Graph.state_indices_by_id: State object -> index
    prop_by_hash,         \* Graph.prop_by_hash: content hash -> StateProperties
    start_node,           \* Graph.start_node, a State object or None
    retired,              \* the indices merge_states has deleted from states
    last                  \* the most recent call and its outcome

vars == <<nobj, properties, is_terminal, edges, states, state_indices_by_id,
          prop_by_hash, start_node, retired, last>>

\* the template ids
Templates == 1..MaxTemplate

\* the template lists client code constructs a State with: one template, or
\* two distinct ones
InitLists == {<<t>> : t \in Templates}
             \cup {l \in Templates \X Templates : l[1] # l[2]}

\* A StateProperties object: its log_templates and its identity.  An object
\* that is not in prop_by_hash is referenced by the one State whose
\* construction or merge created it, and is named by that State; the table
\* holds one object per content for good, which is named by the content alone.
StateProperties(o, log_templates) == [owner |-> o, log_templates |-> log_templates]

\* the name of the object p from the moment prop_by_hash holds it
Interned(p) == [p EXCEPT !.owner = None]

\* StateProperties.get_prop_hash: the hash of the content
get_prop_hash(p) == p.log_templates

\* template in state.properties.log_templates
InList(t, l) == \E i \in 1..Len(l) : l[i] = t

\* "item in self.states" in the place of Graph.__contains__: the keys of
\* states are ints, which a State object never equals
InGraphStatesKeys(item) == FALSE

\* Graph.__contains__
InGraph(item) == item \in DOMAIN state_indices_by_id

\* d[k] = v of a Python dict
DictSet(d, k, v) == [x \in DOMAIN d \cup {k} |-> IF x = k THEN v ELSE d[x]]

\* del d[k] of a Python dict that holds k
DictDel(d, k) == [x \in DOMAIN d \ {k} |-> d[x]]

\* Graph.size
size == Cardinality(DOMAIN states)

\* the record of a call: its number, the method, its arguments and what it
\* returned or raised
Call(op, a, b, res) == [n |-> last.n + 1, op |-> op, a |-> a, b |-> b, res |-> res]

\* Graph.__init__: no state, no edge, an empty interning table; the
\* start node is the State the caller constructed and passes in
Init ==
    /\ nobj = 1
    /\ properties = (1 :> StateProperties(1, <<1>>))
    /\ is_terminal = (1 :> FALSE)
    /\ edges = <<>>
    /\ states = <<>>
    /\ state_indices_by_id = <<>>
    /\ prop_by_hash = <<>>
    /\ start_node = 1
    /\ retired = {}
    /\ last = [n |-> 0, op |-> "Graph", a |-> None, b |-> None, res |-> "ok"]

\* State.__init__
NewState(log_templates, terminal) ==
    /\ nobj < MaxObj
    /\ nobj' = nobj + 1
    /\ properties' = properties @@ (nobj + 1 :> StateProperties(nobj + 1, log_templates))
    /\ is_terminal' = is_terminal @@ (nobj + 1 :> terminal)
    /\ last' = Call("State", nobj + 1, None, "ok")
    /\ UNCHANGED <<edges, states, state_indices_by_id, prop_by_hash,
                   start_node, retired>>

\* add_state without the assignment of line 130: a state whose content is
\* in the table keeps the StateProperties object it was constructed with
add_state_keeping_properties(state) ==
    IF InGraph(state)
    THEN /\ last' = Call("add_state", state, None, "StateAlreadyExistsException")
         /\ UNCHANGED <<nobj, properties, is_terminal, edges, states,
                        state_indices_by_id, prop_by_hash, start_node, retired>>
    ELSE LET curr_index == Cardinality(DOMAIN states)
             hash == get_prop_hash(properties[state])
         IN  /\ states' = DictSet(states, curr_index, state)
             /\ state_indices_by_id' = DictSet(state_indices_by_id, state, curr_index)
             /\ IF hash \in DOMAIN prop_by_hash
                THEN UNCHANGED <<properties, prop_by_hash>>
                ELSE /\ prop_by_hash' = DictSet(prop_by_hash, hash, Interned(properties[state]))
                     /\ properties' = [properties EXCEPT ![state] = Interned(@)]
             /\ last' = Call("add_state", state, None, "ok")
             /\ UNCHANGED <<nobj, is_terminal, edges, start_node, retired>>

\* Graph.add_state
add_state(state) ==
    IF InGraph(state)
    THEN /\ last' = Call("add_state", state, None, "StateAlreadyExistsException")
         /\ UNCHANGED <<nobj, properties, is_terminal, edges, states,
                        state_indices_by_id, prop_by_hash, start_node, retired>>
    ELSE LET curr_index == Cardinality(DOMAIN states)
             hash == get_prop_hash(properties[state])
         IN  /\ states' = DictSet(states, curr_index, state)
             /\ state_indices_by_id' = DictSet(state_indices_by_id, state, curr_index)
             /\ IF hash \in DOMAIN prop_by_hash
                THEN /\ properties' = [properties EXCEPT ![state] = prop_by_hash[hash]]
                     /\ UNCHANGED prop_by_hash
                ELSE /\ prop_by_hash' = DictSet(prop_by_hash, hash, Interned(properties[state]))
                     /\ properties' = [properties EXCEPT ![state] = Interned(@)]
             /\ last' = Call("add_state", state, None, "ok")
             /\ UNCHANGED <<nobj, is_terminal, edges, start_node, retired>>

\* Graph.add_edge
add_edge(start, end) ==
    /\ UNCHANGED <<nobj, properties, is_terminal, states, state_indices_by_id,
                   prop_by_hash, start_node, retired>>
    /\ IF \/ start \notin DOMAIN state_indices_by_id
          \/ end \notin DOMAIN state_indices_by_id
       THEN /\ last' = Call("add_edge", start, end, "False")
            /\ UNCHANGED edges
       ELSE LET start_index == state_indices_by_id[start]
                end_index == state_indices_by_id[end]
            IN  IF ~Contains(edges, start_index, end_index)
                THEN /\ edges' = SetItem(edges, start_index, end_index, DefaultProps)
                     /\ last' = Call("add_edge", start, end, "True")
                ELSE /\ last' = Call("add_edge", start, end, "False")
                     /\ UNCHANGED edges

\* Graph.update_edge
update_edge(start, end, passes) ==
    /\ UNCHANGED <<nobj, properties, is_terminal, edges, states,
                   state_indices_by_id, prop_by_hash, start_node, retired>>
    /\ IF \/ start \notin DOMAIN state_indices_by_id
          \/ end \notin DOMAIN state_indices_by_id
       THEN last' = Call("update_edge", start, end, "False")
       ELSE LET start_index == state_indices_by_id[start]
                end_index == state_indices_by_id[end]
            IN  IF Contains(edges, start_index, end_index)
                THEN last' = Call("update_edge", start, end,
                                  GetItem(edges, start_index, end_index))
                ELSE last' = Call("update_edge", start, end, "False")

\* the loop without its test "if temp not in ...": every template of state2
\* is appended
MergedTemplatesAll(list1, list2) == list1 \o list2

\* the loop of Graph.merge_states over state2's templates: props is a copy
\* of state1's list, to which every template of state2 that is not in
\* state1's list is appended
MergedTemplates(list1, list2) ==
    list1 \o SelectSeq(list2, LAMBDA temp : ~InList(temp, list1))

\* the values Graph.merge_states computes before it touches the edges
MergeProps(state1, state2) ==
    StateProperties(state1, MergedTemplates(properties[state1].log_templates,
                                            properties[state2].log_templates))

\* "state1.is_terminal = state2.is_terminal" in the place of the conditional
MergeTerminalAssigned(state1, state2) == is_terminal[state2]

\* state1.is_terminal after "if state2.is_terminal: state1.is_terminal = True"
MergeTerminal(state1, state2) ==
    IF is_terminal[state2] THEN TRUE ELSE is_terminal[state1]

\* self.start_node after "if state2 is self.start_node: self.start_node = state1"
MergeStart(state1, state2) ==
    IF state2 = start_node THEN state1 ELSE start_node

\* the first rewrite alone: the edges that point to state2 are left as they are
MergeEdgesChildrenOnly(list, index1, index2) ==
    change_parent_of_children(list, index1, index2)

\* self.edges after the two rewrites of Graph.merge_states, for the indices
\* of state1 and of state2
MergeEdges(list, index1, index2) ==
    change_children_of_parents(change_parent_of_children(list, index1, index2),
                               index2, index1)

\* Graph.merge_states.  The lookups self.state_indices_by_id[id(...)] and the
\* del of self.states[...] raise KeyError where the key is absent, after the
\* statements before them have taken effect.
merge_states(state1, state2) ==
    LET props == MergeProps(state1, state2)
        hash == get_prop_hash(props)
        hit == hash \in DOMAIN prop_by_hash
    IN  /\ properties' = [properties EXCEPT
                            ![state1] = IF hit THEN prop_by_hash[hash] ELSE Interned(props)]
        /\ is_terminal' = [is_terminal EXCEPT ![state1] = MergeTerminal(state1, state2)]
        /\ start_node' = MergeStart(state1, state2)
        /\ prop_by_hash' = IF hit THEN prop_by_hash
                           ELSE DictSet(prop_by_hash, hash, Interned(props))
        /\ UNCHANGED nobj
        /\ IF \/ state1 \notin DOMAIN state_indices_by_id
              \/ state2 \notin DOMAIN state_indices_by_id
           THEN /\ last' = Call("merge_states", state1, state2, "KeyError")
                /\ UNCHANGED <<edges, states, state_indices_by_id, retired>>
           ELSE LET index1 == state_indices_by_id[state1]
                    index2 == state_indices_by_id[state2]
                IN  /\ edges' = MergeEdges(edges, index1, index2)
                    /\ IF index2 \notin DOMAIN states
                       THEN /\ last' = Call("merge_states", state1, state2, "KeyError")
                            /\ UNCHANGED <<states, state_indices_by_id, retired>>
                       ELSE /\ states' = DictDel(states, index2)
                            /\ state_indices_by_id' = DictDel(state_indices_by_id, state2)
                            /\ retired' = retired \cup {index2}
                            /\ last' = Call("merge_states", state1, state2, "ok")

\* The calls client code makes on a graph whose states are constructed as the
\* prefix tree factory does for a trace without repeated templates,
\* State([template]): one template of its own each, not terminal.
Next ==
    \/ last.n < MaxCalls /\ NewState(<<nobj + 1>>, FALSE)
    \/ \E o \in 1..nobj : last.n < MaxCalls /\ add_state(o)
    \/ \E a \in 1..nobj, b \in 1..nobj : last.n < MaxCalls /\ add_edge(a, b)
    \/ \E a \in 1..nobj, b \in 1..nobj : last.n < MaxCalls /\ update_edge(a, b, 1)
    \/ \E a \in 1..nobj, b \in 1..nobj : last.n < MaxCalls /\ merge_states(a, b)

Spec == Init /\ [][Next]_vars

\* The calls that construct, add and merge states of any template list and
\* terminal flag, on a graph without edges.
NextStates ==
    \/ \E l \in InitLists, t \in BOOLEAN : last.n < MaxStatesCalls /\ NewState(l, t)
    \/ \E o \in 1..nobj : last.n < MaxStatesCalls /\ add_state(o)
    \/ \E a \in 1..nobj, b \in 1..nobj : last.n < MaxStatesCalls /\ merge_states(a, b)

SpecStates == Init /\ [][NextStates]_vars

\* Longer runs of add_state and merge_states alone, in which merge_states is
\* only called on two distinct states.
NextIndex ==
    \/ last.n < MaxIndexCalls /\ NewState(<<nobj + 1>>, FALSE)
    \/ \E o \in 1..nobj : last.n < MaxIndexCalls /\ add_state(o)
    \/ \E a \in 1..nobj : \E b \in 1..nobj \ {a} :
          last.n < MaxIndexCalls /\ merge_states(a, b)

SpecIndex == Init /\ [][NextIndex]_vars

\* the template lists of the states of SpecIntern: two lists of one template
\* and the list merge_states makes of them
InternLists == {<<1>>, <<2>>, <<1, 2>>}

\* States of these lists are constructed, added and merged, so that a merge
\* gives a state the template list another state holds.
NextIntern ==
    \/ \E l \in InternLists : last.n < MaxInternCalls /\ NewState(l, FALSE)
    \/ \E o \in 1..nobj : last.n < MaxInternCalls /\ add_state(o)
    \/ \E a \in 1..nobj, b \in 1..nobj : last.n < MaxInternCalls /\ merge_states(a, b)

SpecIntern == Init /\ [][NextIntern]_vars

(***************************************************************************)
(* The queries of the Graph and the trace matching.                        *)
(***************************************************************************)
\* an exception as the result of a method
Raise(exc) == [kind |-> "raise", exc |-> exc]

\* Graph.get_outgoing_states: None for a state that is not in the graph;
\* self.states[result[0]] raises KeyError for an index that is no key
get_outgoing_states(state) ==
    IF InGraph(state)
    THEN LET results == find_children(edges, state_indices_by_id[state])
         IN  IF results.kind # "None"
             THEN IF \E k \in 1..Len(results.items) :
                        results.items[k][1] \notin DOMAIN states
                  THEN Raise("KeyError")
                  ELSE ListResult([k \in 1..Len(results.items) |->
                                      states[results.items[k][1]]])
             ELSE ListResult(<<>>)
    ELSE NoneResult

\* Graph.get_outgoing_states_not_self: "if outgoing" is false of None and of
\* the empty list alike
get_outgoing_states_not_self(current) ==
    LET outgoing == get_outgoing_states(current)
    IN  IF outgoing.kind = "raise" THEN outgoing
        ELSE IF outgoing.kind = "list" /\ Len(outgoing.items) > 0
             THEN ListResult(SelectSeq(outgoing.items, LAMBDA x : x # current))
             ELSE ListResult(<<>>)

\* get_incoming_states with "results if results else []" in the place of
\* the test "if state in self"
get_incoming_states_no_none(state) ==
    LET results == IF InGraph(state)
                   THEN get_parents(edges, state_indices_by_id[state])
                   ELSE <<>>
    IN  IF Len(results) > 0
        THEN IF \E k \in 1..Len(results) : results[k] \notin DOMAIN states
             THEN Raise("KeyError")
             ELSE ListResult([k \in 1..Len(results) |-> states[results[k]]])
        ELSE ListResult(<<>>)

\* Graph.get_incoming_states
get_incoming_states(state) ==
    IF InGraph(state)
    THEN LET results == get_parents(edges, state_indices_by_id[state])
         IN  IF Len(results) > 0
             THEN IF \E k \in 1..Len(results) : results[k] \notin DOMAIN states
                  THEN Raise("KeyError")
                  ELSE ListResult([k \in 1..Len(results) |-> states[results[k]]])
             ELSE ListResult(<<>>)
    ELSE NoneResult

\* the templates of the states of SpecTrace
TraceTemplates == {1, 2}

\* the lines of the traces: line 1 and line 2 are of the templates 1 and 2,
\* no template matches line 3
TraceLines == {1, 2, 3}

\* syntax_tree.search(line): the name of the template of the line, or None
search(line) == line % (Cardinality(TraceTemplates) + 1)

\* a test that holds of every template and state
template_matches_any(template, state) == TRUE

\* template_matches_state
template_matches_state(template, state) ==
    InList(template, properties[state].log_templates)

\* the list of the outgoing states without the filter
MatchingAll(template, state) ==
    LET children == get_outgoing_states(state)
    IN  IF children.kind = "None" THEN Raise("TypeError")
        ELSE children

\* list(filter(lambda s: template_matches_state(template, s),
\* self.get_outgoing_states(state))): filter raises TypeError for None
Matching(template, state) ==
    LET children == get_outgoing_states(state)
    IN  IF children.kind = "None" THEN Raise("TypeError")
        ELSE IF children.kind = "raise" THEN children
        ELSE ListResult(SelectSeq(children.items,
                                  LAMBDA s : template_matches_state(template, s)))

\* "return res" without the test of the outgoing states
ReturnAlways(current_state, res) == ListResult(res)

\* "return res if current_state.is_terminal else None": the flag of the
\* state itself in the place of those of its outgoing states
ReturnIfSelfTerminal(current_state, res) ==
    IF is_terminal[current_state] THEN ListResult(res) ELSE NoneResult

\* "return res if [s for s in self.get_outgoing_states(current_state)
\* if s.is_terminal] else None"
ReturnIfTerminal(current_state, res) ==
    LET children == get_outgoing_states(current_state)
    IN  IF children.kind = "None" THEN Raise("TypeError")
        ELSE IF children.kind = "raise" THEN children
        ELSE IF \E k \in 1..Len(children.items) : is_terminal[children.items[k]]
             THEN ListResult(res)
             ELSE NoneResult

RECURSIVE match_trace_loop(_, _, _)
\* the while loop of Graph.match_trace_rec and the return after it: the
\* results the call can have, one for every run of its random choices;
\* successor is the filtered list and s the state random.choice takes from it
match_trace_loop(current_state, trace, res) ==
    IF Len(trace) = 0 THEN {ReturnIfTerminal(current_state, res)}
    ELSE LET template == search(trace[1])
         IN  IF template = None THEN {NoneResult}
             ELSE UNION {IF successor.kind = "raise" THEN {successor}
                         ELSE IF Len(successor.items) = 0 THEN {NoneResult}
                         ELSE UNION {match_trace_loop(s, Tail(trace), Append(res, s)) :
                                       s \in {successor.items[k] :
                                                 k \in 1..Len(successor.items)}} :
                           successor \in {Matching(template, current_state)}}

\* Graph.match_trace_rec
match_trace_rec(current_state, trace) ==
    match_trace_loop(current_state, trace, <<current_state>>)

\* Graph.match_trace from line 269 on, for the first state it has chosen
match_trace_tail(current_state, trace) ==
    LET rest == Tail(trace)
        template == search(rest[1])
    IN  IF template = None THEN {NoneResult}
        ELSE UNION {IF successor.kind = "raise" THEN {successor}
                    ELSE IF Len(successor.items) = 0 THEN {NoneResult}
                    ELSE UNION {{IF tail.kind = "list"
                                 THEN ListResult(<<current_state>> \o tail.items)
                                 ELSE tail :
                                   tail \in match_trace_rec(s, Tail(rest))} :
                                  s \in {successor.items[k] :
                                            k \in 1..Len(successor.items)}} :
                      successor \in {Matching(template, current_state)}}

\* Graph.match_trace: the results the call can have
match_trace_results(trace) ==
    IF Len(trace) = 0 THEN {ListResult(<<>>)}
    ELSE LET template == search(trace[1])
         IN  IF template = None THEN {NoneResult}
             ELSE UNION {IF root_children.kind = "raise" THEN {root_children}
                         ELSE IF Len(root_children.items) = 0 THEN {NoneResult}
                         ELSE UNION {IF Len(trace) = 1
                                     THEN {ReturnIfTerminal(s, <<s>>)}
                                     ELSE match_trace_tail(s, trace) :
                                       s \in {root_children.items[k] :
                                                 k \in 1..Len(root_children.items)}} :
                           root_children \in {Matching(template, start_node)}}

\* the caller's list after Graph.match_trace: "trace[:] = trace[1:]" at line
\* 270 is reached by a trace of two lines or more whose first line has a
\* template and a matching state
trace_after(trace) ==
    IF /\ Len(trace) >= 2
       /\ search(trace[1]) # None
       /\ Matching(search(trace[1]), start_node).kind = "list"
       /\ Len(Matching(search(trace[1]), start_node).items) > 0
    THEN Tail(trace)
    ELSE trace

\* match_trace keeping the state it has chosen first in self.start_node
match_trace_moving_start(trace) ==
    /\ \E result \in match_trace_results(trace) :
          /\ last' = Call("match_trace", trace, trace_after(trace), result)
          /\ start_node' = IF result.kind = "list" /\ Len(result.items) > 0
                           THEN result.items[1]
                           ELSE start_node
    /\ UNCHANGED <<nobj, properties, is_terminal, edges, states,
                   state_indices_by_id, prop_by_hash, retired>>

\* Graph.match_trace called with a list of lines
match_trace(trace) ==
    /\ \E result \in match_trace_results(trace) :
          last' = Call("match_trace", trace, trace_after(trace), result)
    /\ UNCHANGED <<nobj, properties, is_terminal, edges, states,
                   state_indices_by_id, prop_by_hash, start_node, retired>>

\* the traces: the empty one, those of one line, which match_trace settles
\* itself, of two lines, which reach match_trace_rec with no line left, and of
\* three lines, which run its loop
Traces == UNION {[1..k -> TraceLines] : k \in {0, 1, 2, 3}}

\* States of one template each, terminal or not, are constructed and added
\* and edges are added between them; the run ends with a call of match_trace.
NextTrace ==
    \/ \E t \in TraceTemplates, f \in BOOLEAN :
          last.n < MaxTraceCalls - 1 /\ last.op # "match_trace" /\ NewState(<<t>>, f)
    \/ \E o \in 1..nobj :
          last.n < MaxTraceCalls - 1 /\ last.op # "match_trace" /\ add_state(o)
    \/ \E a \in 1..nobj, b \in 1..nobj :
          last.n < MaxTraceCalls - 1 /\ last.op # "match_trace" /\ add_edge(a, b)
    \/ \E trace \in Traces : last.op # "match_trace" /\ match_trace(trace)

SpecTrace == Init /\ [][NextTrace]_vars

\* the traces of SpecGeneral: of one line and of two lines
ShortTraces == UNION {[1..k -> TraceLines] : k \in {1, 2}}

\* A graph is built as in SpecTrace and generalized by calls of merge_states;
\* the run ends with a call of match_trace.
NextGeneral ==
    \/ \E t \in TraceTemplates, f \in BOOLEAN :
          last.n < MaxGeneralCalls - 1 /\ last.op # "match_trace" /\ NewState(<<t>>, f)
    \/ \E o \in 1..nobj :
          last.n < MaxGeneralCalls - 1 /\ last.op # "match_trace" /\ add_state(o)
    \/ \E a \in 1..nobj, b \in 1..nobj :
          last.n < MaxGeneralCalls - 1 /\ last.op # "match_trace" /\ add_edge(a, b)
    \/ \E a \in 1..nobj, b \in 1..nobj :
          last.n < MaxGeneralCalls - 1 /\ last.op # "match_trace" /\ merge_states(a, b)
    \/ \E trace \in ShortTraces : last.op # "match_trace" /\ match_trace(trace)

SpecGeneral == Init /\ [][NextGeneral]_vars

(***************************************************************************)
(* The deep copy of a Graph.                                               *)
(***************************************************************************)
\* the State objects a Graph references: the values of states and start_node
Referenced == {states[i] : i \in DOMAIN states} \cup {start_node}

\* the copy deepcopy makes of the State o, one new object for each referenced
\* object (the memo of deepcopy), numbered after the objects that exist
CopyOf(o) == nobj + Cardinality({x \in Referenced : x <= o})

\* the object a copy was made of
Original(c) == CHOOSE x \in Referenced : CopyOf(x) = c

\* "tree = deepcopy(self.tree)" of build_from_dendrogram, after which the
\* variables are those of the copy.  Graph defines neither __deepcopy__ nor
\* __getstate__: the values of its slots are copied.  State.__deepcopy__
\* constructs a new State with a new StateProperties; the keys of
\* state_indices_by_id are ints, id() of the original State objects, which
\* are still alive, and an int is copied as itself.
deepcopy ==
    /\ nobj' = nobj + Cardinality(Referenced)
    /\ properties' = [o \in 1..nobj + Cardinality(Referenced) |->
                         IF o <= nobj THEN properties[o]
                         ELSE StateProperties(o, properties[Original(o)].log_templates)]
    /\ is_terminal' = [o \in 1..nobj + Cardinality(Referenced) |->
                          IF o <= nobj THEN is_terminal[o]
                          ELSE is_terminal[Original(o)]]
    /\ states' = [i \in DOMAIN states |-> CopyOf(states[i])]
    /\ start_node' = CopyOf(start_node)
    /\ last' = Call("deepcopy", None, None, "ok")
    /\ UNCHANGED <<edges, state_indices_by_id, prop_by_hash, retired>>

\* A graph is built and copied, and the calls go on on the copy.
NextCopy ==
    \/ \E t \in TraceTemplates : last.n < MaxCopyCalls /\ NewState(<<t>>, FALSE)
    \/ \E o \in 1..nobj : last.n < MaxCopyCalls /\ add_state(o)
    \/ \E a \in 1..nobj, b \in 1..nobj : last.n < MaxCopyCalls /\ add_edge(a, b)
    \/ \E a \in 1..nobj, b \in 1..nobj : last.n < MaxCopyCalls /\ merge_states(a, b)
    \/ last.n < MaxCopyCalls /\ deepcopy

SpecCopy == Init /\ [][NextCopy]_vars

(***************************************************************************)
(* StateModelFactory.build_from_dendrogram.                                *)
(***************************************************************************)
\* deepcopy(self.tree): the slots of the copy and the State objects that
\* exist after it
DeepCopied ==
    [nobj |-> nobj + Cardinality(Referenced),
     properties |-> [o \in 1..nobj + Cardinality(Referenced) |->
                        IF o <= nobj THEN properties[o]
                        ELSE StateProperties(o, properties[Original(o)].log_templates)],
     is_terminal |-> [o \in 1..nobj + Cardinality(Referenced) |->
                         IF o <= nobj THEN is_terminal[o]
                         ELSE is_terminal[Original(o)]],
     edges |-> edges,
     states |-> [i \in DOMAIN states |-> CopyOf(states[i])],
     state_indices_by_id |-> state_indices_by_id,
     prop_by_hash |-> prop_by_hash,
     start_node |-> CopyOf(start_node)]

\* Graph.merge_states on the graph g: the graph after the call and "ok", or
\* the graph as the call left it and the exception it raised
MergeStatesIn(g, state1, state2) ==
    LET props == StateProperties(state1,
                     MergedTemplates(g.properties[state1].log_templates,
                                     g.properties[state2].log_templates))
        hash == get_prop_hash(props)
        hit == hash \in DOMAIN g.prop_by_hash
        g1 == [g EXCEPT
                 !.properties[state1] = IF hit THEN g.prop_by_hash[hash]
                                        ELSE Interned(props),
                 !.is_terminal[state1] = IF g.is_terminal[state2] THEN TRUE ELSE @,
                 !.start_node = IF state2 = @ THEN state1 ELSE @,
                 !.prop_by_hash = IF hit THEN @ ELSE DictSet(@, hash, Interned(props))]
    IN  IF \/ state1 \notin DOMAIN g.state_indices_by_id
           \/ state2 \notin DOMAIN g.state_indices_by_id
        THEN [tree |-> g1, res |-> "KeyError"]
        ELSE LET index1 == g.state_indices_by_id[state1]
                 index2 == g.state_indices_by_id[state2]
                 g2 == [g1 EXCEPT !.edges = MergeEdges(@, index1, index2)]
             IN  IF index2 \notin DOMAIN g.states
                 THEN [tree |-> g2, res |-> "KeyError"]
                 ELSE [tree |-> [g2 EXCEPT
                                   !.states = DictDel(@, index2),
                                   !.state_indices_by_id = DictDel(@, state2)],
                       res |-> "ok"]

RECURSIVE MergeRows(_, _, _, _, _)
\* the loop of build_from_dendrogram from the row of number count on: the
\* working graph when the loop ends and "ok", or the exception a lookup in
\* merged_states or tree.states or the call of merge_states raised
MergeRows(g, dendrogram, count, length, merged_states) ==
    IF count = Len(dendrogram) THEN {[tree |-> g, res |-> "ok"]}
    ELSE LET dest == dendrogram[count + 1][1]
             source == dendrogram[count + 1][2]
         IN  IF \/ dest >= length /\ dest \notin DOMAIN merged_states
                \/ source >= length /\ source \notin DOMAIN merged_states
             THEN {[tree |-> g, res |-> "KeyError"]}
             ELSE LET dest_index == IF dest < length THEN dest ELSE merged_states[dest]
                      source_index == IF source < length THEN source
                                      ELSE merged_states[source]
                  IN  IF \/ dest_index \notin DOMAIN g.states
                         \/ source_index \notin DOMAIN g.states
                      THEN {[tree |-> g, res |-> "KeyError"]}
                      ELSE UNION {IF r.res # "ok" THEN {r}
                                  ELSE MergeRows(r.tree, dendrogram, count + 1, length,
                                           DictSet(merged_states, length + count,
                                                   dest_index)) :
                                    r \in {MergeStatesIn(g, g.states[dest_index],
                                                         g.states[source_index])}}

\* the dendrograms of at most two rows over a tree of n states in which every
\* operand is an index below n or the cluster id n + k of an earlier row k,
\* and no id is an operand twice
Dendrograms(n) ==
    {d \in UNION {[1..k -> (0..2 * n - 2) \X (0..2 * n - 2)] : k \in {0, 1, 2}} :
        /\ \A i \in 1..Len(d) : \A j \in {1, 2} : d[i][j] < n + i - 1
        /\ \A i \in 1..Len(d) : d[i][1] # d[i][2]
        /\ \A i \in 1..Len(d) : \A i2 \in 1..Len(d) : \A j \in {1, 2} : \A j2 \in {1, 2} :
              i # i2 => d[i][j] # d[i2][j2]}

\* StateModelFactory.build_from_dendrogram: the merges are made on the copy,
\* which is returned; the variables stay those of self.tree, with the State
\* objects of self.tree as the calls on the copy left them
build_from_dendrogram(dendrogram) ==
    /\ \E r \in MergeRows(DeepCopied, dendrogram, 0, Cardinality(DOMAIN states), <<>>) :
          /\ properties' = [o \in 1..nobj |-> r.tree.properties[o]]
          /\ is_terminal' = [o \in 1..nobj |-> r.tree.is_terminal[o]]
          /\ last' = Call("build_from_dendrogram", dendrogram, None,
                          IF r.res = "ok"
                          THEN [kind |-> "graph", states |-> r.tree.states,
                                state_indices_by_id |-> r.tree.state_indices_by_id,
                                edges |-> r.tree.edges]
                          ELSE Raise(r.res))
    /\ UNCHANGED <<nobj, edges, states, state_indices_by_id, prop_by_hash,
                   start_node, retired>>

\* A tree is built of states of one template each; the run ends with a call
\* of build_from_dendrogram.
NextDendro ==
    \/ \E t \in TraceTemplates :
          /\ last.n < MaxDendroCalls - 1 /\ last.op # "build_from_dendrogram"
          /\ NewState(<<t>>, FALSE)
    \/ \E o \in 1..nobj :
          /\ last.n < MaxDendroCalls - 1 /\ last.op # "build_from_dendrogram"
          /\ add_state(o)
    \/ \E a \in 1..nobj, b \in 1..nobj :
          /\ last.n < MaxDendroCalls - 1 /\ last.op # "build_from_dendrogram"
          /\ add_edge(a, b)
    \/ \E d \in Dendrograms(Cardinality(DOMAIN states)) :
          last.op # "build_from_dendrogram" /\ build_from_dendrogram(d)

SpecDendro == Init /\ [][NextDendro]_vars

(***************************************************************************)
(* The Visualizer of a Graph.                                              *)
(***************************************************************************)
\* the characters "[" and "]" of a label
LeftBracket == <<91>>
RightBracket == <<93>>

\* the template "" of a root, which Visualizer.__init__ maps to 0
EmptyTemplate == 0

RECURSIVE LabelLoop(_, _, _)
\* the for loop of Visualizer.get_label: a template that is not in
\* label_mapping gets the number len(label_mapping), and the number of each
\* template is appended to the label
LabelLoop(log_templates, label_mapping, label) ==
    IF Len(log_templates) = 0 THEN [label |-> label, label_mapping |-> label_mapping]
    ELSE LET log_template == Head(log_templates)
             mapping == IF log_template \in DOMAIN label_mapping THEN label_mapping
                        ELSE DictSet(label_mapping, log_template,
                                     Cardinality(DOMAIN label_mapping))
         IN  LabelLoop(Tail(log_templates), mapping,
                       label \o Str(mapping[log_template]))

\* Visualizer.get_label: the label and self.label_mapping after the call
get_label(log_templates, label_mapping) ==
    LET looped == LabelLoop(log_templates, label_mapping,
                            IF Len(log_templates) > 1 THEN LeftBracket ELSE <<>>)
    IN  [looped EXCEPT !.label = IF Len(log_templates) > 1 THEN @ \o RightBracket
                                 ELSE @]

RECURSIVE PopulateLevel(_, _, _)
\* the two while loops of Visualizer.__populate_graph, from a test of the
\* inner one on: queue and level_size, and in v the values of visited,
\* labels, self.label_mapping, the edges of self.G, branches and depth.  The
\* result is the set of the one outcome; "level_size -= 1" is inside
\* "if state not in visited", and queue.pop(0) raises IndexError for the
\* empty list.  In b are the values computed for a state that is not
\* visited, in n the values the loops go on with.
PopulateLevel(queue, level_size, v) ==
    IF level_size > 0
    THEN IF Len(queue) = 0 THEN {Raise("IndexError")}
         ELSE IF Head(queue) \in v.visited
         THEN PopulateLevel(Tail(queue), level_size, v)
         ELSE UNION {
                IF b.incoming.kind = "None" \/ b.children.kind = "None"
                THEN {Raise("TypeError")}
                ELSE IF b.incoming.kind = "raise" THEN {b.incoming}
                ELSE IF b.children.kind = "raise" THEN {b.children}
                ELSE UNION {PopulateLevel(n.queue, n.level_size, n.v) : n \in {
                       [queue |-> Tail(queue) \o b.children.items,
                        level_size |-> level_size - 1,
                        v |-> [visited |-> v.visited \cup {b.state},
                               labels |-> DictSet(v.labels, b.state, b.got.label),
                               label_mapping |-> b.got.label_mapping,
                               G |-> v.G \cup {<<b.incoming.items[k], b.state>> :
                                                 k \in 1..Len(b.incoming.items)},
                               branches |-> IF Len(b.children.items) > 1
                                            THEN v.branches + Len(b.children.items) - 1
                                            ELSE v.branches,
                               depth |-> v.depth]]}} :
                  b \in {[state |-> Head(queue),
                          incoming |-> get_incoming_states(Head(queue)),
                          children |-> get_outgoing_states(Head(queue)),
                          got |-> get_label(properties[Head(queue)].log_templates,
                                            v.label_mapping)]}}
    ELSE IF Len(queue) # 0
         THEN UNION {PopulateLevel(queue, Len(queue), n) :
                       n \in {[v EXCEPT !.depth = @ + 1]}}
         ELSE {[kind |-> "tuple", labels |-> v.labels, branches |-> v.branches,
                depth |-> v.depth + 1, G |-> v.G]}

\* Visualizer.__populate_graph up to its loops: len(queue) raises TypeError
\* for the None get_outgoing_states returns for a start_node that is not in
\* the graph
populate_results ==
    LET queue == get_outgoing_states(start_node)
        got == get_label(properties[start_node].log_templates,
                         (EmptyTemplate :> 0))
    IN  IF queue.kind = "None" THEN {Raise("TypeError")}
        ELSE IF queue.kind = "raise" THEN {queue}
        ELSE IF Len(queue.items) = 0
             THEN {[kind |-> "tuple", labels |-> (start_node :> got.label),
                    branches |-> 1, depth |-> 1, G |-> {}]}
             ELSE PopulateLevel(queue.items, Len(queue.items),
                                [visited |-> {start_node},
                                 labels |-> (start_node :> got.label),
                                 label_mapping |-> got.label_mapping,
                                 G |-> {}, branches |-> 1, depth |-> 1])

\* Visualizer(graph).__populate_graph(), as visualize calls it
populate_graph ==
    /\ \E result \in populate_results :
          last' = Call("populate_graph", None, None, result)
    /\ UNCHANGED <<nobj, properties, is_terminal, edges, states,
                   state_indices_by_id, prop_by_hash, start_node, retired>>

\* States of one template each are constructed, added, connected and merged;
\* the run ends with the population of a Visualizer of the graph.
NextVisual ==
    \/ \E t \in TraceTemplates :
          /\ last.n < MaxVisualCalls - 1 /\ last.op # "populate_graph"
          /\ NewState(<<t>>, FALSE)
    \/ \E o \in 1..nobj :
          /\ last.n < MaxVisualCalls - 1 /\ last.op # "populate_graph"
          /\ add_state(o)
    \/ \E a \in 1..nobj, b \in 1..nobj :
          /\ last.n < MaxVisualCalls - 1 /\ last.op # "populate_graph"
          /\ add_edge(a, b)
    \/ \E a \in 1..nobj, b \in 1..nobj :
          /\ last.n < MaxVisualCalls - 1 /\ last.op # "populate_graph"
          /\ merge_states(a, b)
    \/ last.op # "populate_graph" /\ populate_graph

SpecVisual == Init /\ [][NextVisual]_vars

(***************************************************************************)
(* PrefixTreeGraph: a Graph with a root, built by add_child and merge.     *)
(***************************************************************************)
\* the fields of the graph and of the State objects as one value
GraphNow ==
    [nobj |-> nobj, properties |-> properties, is_terminal |-> is_terminal,
     edges |-> edges, states |-> states,
     state_indices_by_id |-> state_indices_by_id, prop_by_hash |-> prop_by_hash]

\* Graph.add_state of a state that is not contained, on the value g
AddStateTo(g, state) ==
    LET curr_index == Cardinality(DOMAIN g.states)
        hash == get_prop_hash(g.properties[state])
        hit == hash \in DOMAIN g.prop_by_hash
    IN  [g EXCEPT
           !.states = DictSet(@, curr_index, state),
           !.state_indices_by_id = DictSet(@, state, curr_index),
           !.properties = [@ EXCEPT ![state] = IF hit THEN g.prop_by_hash[hash]
                                               ELSE Interned(@)],
           !.prop_by_hash = IF hit THEN @
                            ELSE DictSet(@, hash, Interned(g.properties[state]))]

\* add_edge setting the entry of (end_index, start_index)
AddEdgeSwapped(g, start, end) ==
    IF \/ start \notin DOMAIN g.state_indices_by_id
       \/ end \notin DOMAIN g.state_indices_by_id
    THEN g
    ELSE LET start_index == g.state_indices_by_id[start]
             end_index == g.state_indices_by_id[end]
         IN  IF ~Contains(g.edges, start_index, end_index)
             THEN [g EXCEPT !.edges = SetItem(@, end_index, start_index, DefaultProps)]
             ELSE g

\* Graph.add_edge on the value g
AddEdgeTo(g, start, end) ==
    IF \/ start \notin DOMAIN g.state_indices_by_id
       \/ end \notin DOMAIN g.state_indices_by_id
    THEN g
    ELSE LET start_index == g.state_indices_by_id[start]
             end_index == g.state_indices_by_id[end]
         IN  IF ~Contains(g.edges, start_index, end_index)
             THEN [g EXCEPT !.edges = SetItem(@, start_index, end_index, DefaultProps)]
             ELSE g

\* PrefixTreeGraph.add_child on the value g: the child is inserted and the
\* edge parent -> child is added
AddChildTo(g, child, parent) == AddEdgeTo(AddStateTo(g, child), parent, child)

\* PrefixTreeGraph.get_children on the value g: the outgoing states
ChildrenIn(g, state) ==
    LET r == find_children(g.edges, g.state_indices_by_id[state])
    IN  IF r.kind = "None" THEN <<>>
        ELSE [k \in 1..Len(r.items) |-> g.states[r.items[k][1]]]

\* the template list of the root of a PrefixTreeGraph: State([""])
RootList == <<0>>

\* The trees passed to merge, of one, two and three nodes: node 1 is the
\* root, every other node names its parent, a node before it, and holds one
\* template.
\* the template lists of the roots of the trees passed to merge: that of a
\* PrefixTreeGraph(State([""])) and that of a tree with another root
OtherLists == {RootList, <<1>>}
OtherTrees ==
    UNION {{t \in [1..n -> [log_templates : {RootList, <<1>>, <<2>>},
                           parent : 0..n - 1]] :
              /\ t[1].parent = 0
              /\ t[1].log_templates \in OtherLists
              /\ \A k \in 2..n : /\ t[k].parent \in 1..k - 1
                                 /\ t[k].log_templates \in {<<1>>, <<2>>}} :
           n \in {1, 2, 3}}

\* the children of node k of the tree other, in the order of their numbers
Kids(other, k) ==
    SelectSeq([j \in 1..Len(other) |-> j], LAMBDA j : other[j].parent = k)

\* the State object of a node of other enters the value g as a new object
Enter(g, node) ==
    [g EXCEPT !.nobj = @ + 1,
              !.properties = @ @@ (g.nobj + 1 :> StateProperties(g.nobj + 1, node.log_templates)),
              !.is_terminal = @ @@ (g.nobj + 1 :> FALSE)]

RECURSIVE SpliceKids(_, _, _, _)
\* the nodes kids of other and the subtrees below them are spliced in as
\* children of the state parent
SpliceKids(g, other, parent, kids) ==
    IF Len(kids) = 0 THEN g
    ELSE LET g1 == AddChildTo(Enter(g, other[Head(kids)]), g.nobj + 1, parent)
             g2 == SpliceKids(g1, other, g.nobj + 1, Kids(other, Head(kids)))
         IN  SpliceKids(g2, other, parent, Tail(kids))

\* the walk of merge that splices every child in, equivalent or not
MergeKidsAllSpliced(g, other, state, kids) == SpliceKids(g, other, state, kids)

RECURSIVE MergeKids(_, _, _, _)
\* the walk of PrefixTreeGraph.merge for the state of self and the children
\* kids of the corresponding node of other: a child that is equivalent to a
\* child of state is walked together with it, any other is spliced in with
\* its subtree
MergeKids(g, other, state, kids) ==
    IF Len(kids) = 0 THEN g
    ELSE LET node == other[Head(kids)]
             equivalent == SelectSeq(ChildrenIn(g, state),
                              LAMBDA c : g.properties[c].log_templates = node.log_templates)
             g1 == IF Len(equivalent) > 0
                   THEN MergeKids(g, other, equivalent[1], Kids(other, Head(kids)))
                   ELSE SpliceKids(g, other, state, <<Head(kids)>>)
         IN  MergeKids(g1, other, state, Tail(kids))

\* merge without the test of the roots
RootsEquivalentAlways(other) == TRUE

\* State.is_equivalent of the two roots
RootsEquivalent(other) ==
    properties[start_node].log_templates = other[1].log_templates

\* the fields of the value g become those of the graph
Becomes(g) ==
    /\ nobj' = g.nobj
    /\ properties' = g.properties
    /\ is_terminal' = g.is_terminal
    /\ edges' = g.edges
    /\ states' = g.states
    /\ state_indices_by_id' = g.state_indices_by_id
    /\ prop_by_hash' = g.prop_by_hash

\* PrefixTreeGraph.add_child(child, parent)
add_child(child, parent) ==
    IF InGraph(child)
    THEN /\ last' = Call("add_child", child, parent, "StateAlreadyExistsException")
         /\ UNCHANGED <<nobj, properties, is_terminal, edges, states,
                        state_indices_by_id, prop_by_hash, start_node, retired>>
    ELSE /\ Becomes(AddChildTo(GraphNow, child, parent))
         /\ last' = Call("add_child", child, parent, "ok")
         /\ UNCHANGED <<start_node, retired>>

\* PrefixTreeGraph.merge(other)
merge(other) ==
    IF ~RootsEquivalent(other)
    THEN /\ last' = Call("merge", other, None, "InvalidTreeException")
         /\ UNCHANGED <<nobj, properties, is_terminal, edges, states,
                        state_indices_by_id, prop_by_hash, start_node, retired>>
    ELSE /\ Becomes(MergeKids(GraphNow, other, start_node, Kids(other, 1)))
         /\ last' = Call("merge", other, None, "ok")
         /\ UNCHANGED <<start_node, retired>>

\* PrefixTreeGraph(State([""])): the root is the one state of the tree
InitTree ==
    /\ nobj = 1
    /\ properties = (1 :> Interned(StateProperties(1, RootList)))
    /\ is_terminal = (1 :> FALSE)
    /\ edges = <<>>
    /\ states = (0 :> 1)
    /\ state_indices_by_id = (1 :> 0)
    /\ prop_by_hash = (RootList :> Interned(StateProperties(1, RootList)))
    /\ start_node = 1
    /\ retired = {}
    /\ last = [n |-> 0, op |-> "PrefixTreeGraph", a |-> None, b |-> None, res |-> "ok"]

\* States of one template are constructed and added as children of states
\* of the tree, and other trees are merged into it.
NextTree ==
    \/ \E t \in {1, 2} : last.n < MaxTreeCalls /\ NewState(<<t>>, FALSE)
    \/ \E child \in 1..nobj, parent \in DOMAIN state_indices_by_id :
          last.n < MaxTreeCalls /\ add_child(child, parent)
    \/ \E other \in OtherTrees : last.n < MaxTreeCalls /\ merge(other)

SpecTree == InitTree /\ [][NextTree]_vars

(***************************************************************************)
(* A graph of LargeSize states, whose indices reach two digits.            *)
(***************************************************************************)
\* The graph after LargeSize calls of add_state on a new Graph, each with a
\* new State(["1"]): the states hold the indices 0..LargeSize - 1 and share
\* the one interned StateProperties.
InitLarge ==
    /\ nobj = LargeSize
    /\ properties = [o \in 1..LargeSize |-> Interned(StateProperties(o, <<1>>))]
    /\ is_terminal = [o \in 1..LargeSize |-> FALSE]
    /\ edges = <<>>
    /\ states = [i \in 0..LargeSize - 1 |-> i + 1]
    /\ state_indices_by_id = [o \in 1..LargeSize |-> o - 1]
    /\ prop_by_hash = (<<1>> :> Interned(StateProperties(1, <<1>>)))
    /\ start_node = 1
    /\ retired = {}
    /\ last = [n |-> 0, op |-> "Graph", a |-> None, b |-> None, res |-> "ok"]

\* the states the calls of SpecLarge name: those of the indices 1 and 2 and
\* the one of the largest index
LargeEnds == {2, 3, LargeSize}

NextLarge ==
    \/ \E a \in LargeEnds, b \in LargeEnds : last.n < MaxLargeCalls /\ add_edge(a, b)
    \/ \E a \in LargeEnds, b \in LargeEnds : last.n < MaxLargeCalls /\ update_edge(a, b, 1)

SpecLarge == InitLarge /\ [][NextLarge]_vars

(***************************************************************************)
(* The SparseMatrix on its own: calls of its methods on the matrix of a    *)
(* graph that holds no state.                                              *)
(***************************************************************************)
\* the indices the calls use as sources and destinations: two of one digit
\* and one of two digits that starts with the digit of another
MatrixIndices == {1, 2, 10}

\* the payloads the calls set: str(value) of the pass counts 1 and 2
Payloads == {Str(1), Str(2)}

\* SparseMatrix.__setitem__ called with key (s, d) and a value whose str is v
setitem(s, d, v) ==
    /\ edges' = SetItem(edges, s, d, v)
    /\ last' = Call("__setitem__", <<s, d>>, v, "ok")
    /\ UNCHANGED <<nobj, properties, is_terminal, states, state_indices_by_id,
                   prop_by_hash, start_node, retired>>

\* SparseMatrix.get_parents called with i: it works on a copy of the list
getparents(i) ==
    /\ last' = Call("get_parents", i, None, get_parents(edges, i))
    /\ UNCHANGED <<nobj, properties, is_terminal, edges, states,
                   state_indices_by_id, prop_by_hash, start_node, retired>>

\* SparseMatrix.change_parent_of_children called on the matrix
rewrite_source(new_parent, old_parent) ==
    /\ edges' = change_parent_of_children(edges, new_parent, old_parent)
    /\ last' = Call("change_parent_of_children", new_parent, old_parent, "ok")
    /\ UNCHANGED <<nobj, properties, is_terminal, states, state_indices_by_id,
                   prop_by_hash, start_node, retired>>

\* SparseMatrix.change_children_of_parents called on the matrix
rewrite_destination(old_child, new_child) ==
    /\ edges' = change_children_of_parents(edges, old_child, new_child)
    /\ last' = Call("change_children_of_parents", old_child, new_child, "ok")
    /\ UNCHANGED <<nobj, properties, is_terminal, states, state_indices_by_id,
                   prop_by_hash, start_node, retired>>

NextMatrix ==
    \/ \E s \in MatrixIndices, d \in MatrixIndices, v \in Payloads :
          last.n < MaxMatrixCalls /\ setitem(s, d, v)
    \/ \E i \in MatrixIndices : last.n < MaxMatrixCalls /\ getparents(i)
    \/ \E i \in MatrixIndices : \E j \in MatrixIndices \ {i} :
          last.n < MaxMatrixCalls /\ rewrite_source(i, j)
    \/ \E i \in MatrixIndices : \E j \in MatrixIndices \ {i} :
          last.n < MaxMatrixCalls /\ rewrite_destination(i, j)

SpecMatrix == Init /\ [][NextMatrix]_vars

(***************************************************************************)
(* Properties.                                                             *)
(***************************************************************************)
\* the (source, destination) pairs of the entries of a SparseMatrix list
EdgePairs(list) ==
    {<<get_values(list[i])[1], get_values(list[i])[2]>> : i \in 1..Len(list)}

\* the step is a call of merge_states
IsMerge == last'.op = "merge_states"

\* the step is a call of merge_states on two distinct states that are both
\* contained in the graph
IsMergeOfContained ==
    /\ IsMerge
    /\ last'.a # last'.b
    /\ last'.a \in DOMAIN state_indices_by_id
    /\ last'.b \in DOMAIN state_indices_by_id

\* C1: every entry of the adjacency index has a source index and a
\* destination index that are keys of the states map.
C1_NoDanglingEdge ==
    \A e \in EdgePairs(edges) : e[1] \in DOMAIN states /\ e[2] \in DOMAIN states

\* C2: after merge_states(a, b) on distinct contained states, b is no longer
\* contained, a is still contained and size() is one less than before.
C2_AbsorbedIsRemoved ==
    [][IsMergeOfContained =>
          /\ last'.b \notin DOMAIN state_indices_by_id'
          /\ last'.a \in DOMAIN state_indices_by_id'
          /\ size' = size - 1]_vars

Pos(t, l) == CHOOSE i \in 1..Len(l) : l[i] = t

\* the templates of the list l
Elems(l) == {l[i] : i \in 1..Len(l)}

C6_StartNodeStaysContained ==
    [][(IsMerge /\ start_node \in DOMAIN state_indices_by_id) =>
          /\ start_node' \in DOMAIN state_indices_by_id'
          /\ start_node' = IF last'.b = start_node THEN last'.a ELSE start_node]_vars

\* C7: merge_states(a, a) on a contained state is rejected with InvalidMerge
\* and changes neither the states nor the edges.
C7_SelfMergeRejected ==
    [][(IsMerge /\ last'.a = last'.b /\ last'.a \in DOMAIN state_indices_by_id) =>
          /\ last'.res = "InvalidMerge"
          /\ UNCHANGED <<states, state_indices_by_id, edges>>]_vars

\* C8: a merge_states call that fails leaves the templates and the terminal
\* flags, start_node, the interning table, the states map and the edges as
\* they were.
C8_FailedMergeChangesNothing ==
    [][(IsMerge /\ last'.res # "ok") =>
          UNCHANGED <<properties, is_terminal, start_node, prop_by_hash,
                      states, state_indices_by_id, edges>>]_vars

\* the states map and the identity map are mutually inverse
MutuallyInverse(st, ix) ==
    /\ \A i \in DOMAIN st : st[i] \in DOMAIN ix /\ ix[st[i]] = i
    /\ \A o \in DOMAIN ix : ix[o] \in DOMAIN st /\ st[ix[o]] = o

\* C9: add_state of a state that is not in the graph assigns an index no
\* state has held, live or retired; size() grows by one and the states map
\* and the identity map are mutually inverse afterwards.
C9_IndexNeverReused ==
    [][(last'.op = "add_state" /\ last'.res = "ok") =>
          LET index == state_indices_by_id'[last'.a]
          IN  /\ index \notin DOMAIN states
              /\ index \notin retired
              /\ size' = size + 1
              /\ (MutuallyInverse(states, state_indices_by_id)
                    => MutuallyInverse(states', state_indices_by_id'))]_vars

\* C10: add_state of a state that is contained raises
\* StateAlreadyExistsException and changes neither the states map, the
\* identity map, the interning table nor the edges.
C10_AddExistingRaises ==
    [][(last'.op = "add_state" /\ last'.a \in DOMAIN state_indices_by_id) =>
          /\ last'.res = "StateAlreadyExistsException"
          /\ UNCHANGED <<states, state_indices_by_id, prop_by_hash, edges>>]_vars

\* C10 witness: add_state has raised on a state of a graph that holds edges.
C10_Witness ==
    /\ last.op = "add_state" /\ last.res = "StateAlreadyExistsException"
    /\ last.a \in DOMAIN state_indices_by_id
    /\ edges # <<>>

(***************************************************************************)
(* Properties of the SparseMatrix.                                         *)
(***************************************************************************)
\* the step is a call of __setitem__
IsSet == last'.op = "__setitem__"

\* the keys of the calls
Pairs == MatrixIndices \X MatrixIndices

\* __getitem__ returns a value: it raises neither of its errors
GetSucceeds(list, s, d) == GetItem(list, s, d) \notin {"TypeError", "KeyError"}

\* the elements of the list find_children returns, none for None
ChildSet(list, s) ==
    LET r == find_children(list, s)
    IN  IF r.kind = "None" THEN {} ELSE {r.items[k] : k \in 1..Len(r.items)}

\* the elements of a list of ints
IntSet(l) == {l[k] : k \in 1..Len(l)}

\* C12: the adjacency index holds at most one entry per (source,
\* destination) pair, whatever was set or rewritten.
C12_OneEntryPerPair ==
    \A i \in 1..Len(edges), j \in 1..Len(edges) :
        i # j => <<get_values(edges[i])[1], get_values(edges[i])[2]>>
                    # <<get_values(edges[j])[1], get_values(edges[j])[2]>>

\* C12 witness: the second call was a __setitem__ on the pair of the first,
\* and the index holds one entry, with the payload of the second call.
C12_Witness ==
    /\ last.op = "__setitem__" /\ last.n = 2
    /\ edges = <<Entry(last.a[1], last.a[2], last.b)>>
    /\ last.b = Str(2)

\* C14: __getitem__ of a pair fails with KeyError while the pair was never
\* set, and a __setitem__ of (s, d) with payload v makes __getitem__ of (s, d)
\* return v and leaves the result of __getitem__ of every other pair as it was.
C14_GetReturnsLatest ==
    /\ [](edges = <<>> => \A p \in Pairs : GetItem(edges, p[1], p[2]) = "KeyError")
    /\ [][IsSet =>
            /\ GetSucceeds(edges', last'.a[1], last'.a[2])
            /\ GetItem(edges', last'.a[1], last'.a[2]) = last'.b
            /\ \A p \in Pairs \ {last'.a} :
                  GetItem(edges', p[1], p[2]) = GetItem(edges, p[1], p[2])]_vars

\* C15: __contains__ is false of every pair while nothing was set, and a
\* __setitem__ of (s, d) makes it true of (s, d) and of no other pair.
C15_ContainsExactPair ==
    /\ [](edges = <<>> => \A p \in Pairs : ~Contains(edges, p[1], p[2]))
    /\ [][IsSet =>
            /\ Contains(edges', last'.a[1], last'.a[2])
            /\ \A p \in Pairs \ {last'.a} :
                  Contains(edges', p[1], p[2]) = Contains(edges, p[1], p[2])]_vars

\* C16: find_children yields nothing while nothing was set; a __setitem__ of
\* (s, d) with payload v makes (d, v) the one element of find_children(s) for
\* the destination d and changes no other element of find_children(s) and no
\* element of find_children of another source; the list find_children
\* returns holds no destination twice.
C16_ChildrenExact ==
    /\ [](edges = <<>> => \A s \in MatrixIndices : find_children(edges, s) = NoneResult)
    /\ [](\A s \in MatrixIndices :
            LET r == find_children(edges, s)
            IN  r.kind = "list" =>
                  /\ Len(r.items) > 0
                  /\ \A i \in 1..Len(r.items), j \in 1..Len(r.items) :
                        i # j => r.items[i][1] # r.items[j][1])
    /\ [][IsSet =>
            \A s \in MatrixIndices :
                ChildSet(edges', s) =
                    IF s = last'.a[1]
                    THEN {c \in ChildSet(edges, s) : c[1] # last'.a[2]}
                            \cup {<<last'.a[2], last'.b>>}
                    ELSE ChildSet(edges, s)]_vars

\* C16 witness: three pairs are set, two of source 1 and one of source 10;
\* find_children(1) holds two elements.
C16_Witness ==
    /\ last.op = "__setitem__" /\ Len(edges) = 3
    /\ find_children(edges, 10).kind = "list"
    /\ find_children(edges, 1).kind = "list"
    /\ Len(find_children(edges, 1).items) = 2

\* C17: get_parents(d) holds exactly the sources s of the stored entries
\* (s, d), each once; s is in get_parents(d) if and only if d is a
\* destination of find_children(s); a call of get_parents returns this list
\* and leaves the stored entries unchanged.
C17_ParentsExact ==
    /\ [](\A d \in MatrixIndices :
            LET ps == get_parents(edges, d)
            IN  /\ IntSet(ps) = {e[1] : e \in {f \in EdgePairs(edges) : f[2] = d}}
                /\ Len(ps) = Cardinality(IntSet(ps))
                /\ \A s \in MatrixIndices :
                      (s \in IntSet(ps)) <=> (\E c \in ChildSet(edges, s) : c[1] = d))
    /\ [][last'.op = "get_parents" =>
            /\ edges' = edges
            /\ last'.res = get_parents(edges, last'.a)]_vars

\* C17 witness: get_parents has returned the two parents of an index.
C17_Witness ==
    /\ last.op = "get_parents"
    /\ Len(last.res) = 2
    /\ Len(edges) = 2

(***************************************************************************)
(* Properties of the edges, the queries and the trace matching.            *)
(***************************************************************************)
\* both states of the call of the step are contained in the graph
BothContained ==
    /\ last'.a \in DOMAIN state_indices_by_id
    /\ last'.b \in DOMAIN state_indices_by_id

\* the payload of the entry of the pair (s, d) that list holds
PayloadOf(list, s, d) ==
    LET i == CHOOSE k \in 1..Len(list) :
                 get_values(list[k])[1] = s /\ get_values(list[k])[2] = d
    IN  get_values(list[i])[3]

\* C11: add_edge returns True and inserts the edge exactly when both states
\* are contained and no edge of exactly their pair of indices exists, leaving
\* every other edge as it was; otherwise it returns False and changes no edge.
C11_AddEdgeExactPair ==
    [][last'.op = "add_edge" =>
          IF BothContained
             /\ <<state_indices_by_id[last'.a], state_indices_by_id[last'.b]>>
                   \notin EdgePairs(edges)
          THEN /\ last'.res = "True"
               /\ EdgePairs(edges') = EdgePairs(edges)
                     \cup {<<state_indices_by_id[last'.a], state_indices_by_id[last'.b]>>}
               /\ Len(edges') = Len(edges) + 1
          ELSE /\ last'.res = "False"
               /\ edges' = edges]_vars

\* C13: update_edge on an existing edge between two contained states returns
\* True and adds passes, which is 1 in every call, to the pass count of
\* that edge and changes no other edge; otherwise it returns False and
\* changes no edge.
C13_UpdateEdgeAddsPasses ==
    [][last'.op = "update_edge" =>
          IF BothContained
             /\ <<state_indices_by_id[last'.a], state_indices_by_id[last'.b]>>
                   \in EdgePairs(edges)
          THEN LET si == state_indices_by_id[last'.a]
                   ei == state_indices_by_id[last'.b]
               IN  /\ last'.res = "True"
                   /\ EdgePairs(edges') = EdgePairs(edges)
                   /\ Len(edges') = Len(edges)
                   /\ \A e \in EdgePairs(edges) :
                         PayloadOf(edges', e[1], e[2]) =
                            IF e = <<si, ei>>
                            THEN Str(ParseInt(PayloadOf(edges, si, ei)) + 1)
                            ELSE PayloadOf(edges, e[1], e[2])
          ELSE /\ last'.res = "False"
               /\ edges' = edges]_vars

\* the state of index i has no outgoing edge, no incoming edge
NoNeighbours(i) == \A e \in EdgePairs(edges) : e[1] # i /\ e[2] # i

\* C18 as stated: each of the three queries returns the empty list for a
\* contained state without neighbours and a result that is not the empty
\* list for a state that is not contained.
C18_UnknownDiffersFromEmpty ==
    \A o \in 1..nobj :
        IF InGraph(o)
        THEN NoNeighbours(state_indices_by_id[o]) =>
                /\ get_outgoing_states(o) = ListResult(<<>>)
                /\ get_outgoing_states_not_self(o) = ListResult(<<>>)
                /\ get_incoming_states(o) = ListResult(<<>>)
        ELSE /\ get_outgoing_states(o) # ListResult(<<>>)
             /\ get_incoming_states(o) # ListResult(<<>>)
             /\ get_outgoing_states_not_self(o) # ListResult(<<>>)

\* C18 as amended: get_outgoing_states and get_incoming_states return None
\* for a state that is not contained and the empty list for a contained
\* state without neighbours; get_outgoing_states_not_self returns the empty
\* list for both.
C18_UnknownIsNone ==
    \A o \in 1..nobj :
        IF InGraph(o)
        THEN NoNeighbours(state_indices_by_id[o]) =>
                /\ get_outgoing_states(o) = ListResult(<<>>)
                /\ get_outgoing_states_not_self(o) = ListResult(<<>>)
                /\ get_incoming_states(o) = ListResult(<<>>)
        ELSE /\ get_outgoing_states(o) = NoneResult
             /\ get_incoming_states(o) = NoneResult
             /\ get_outgoing_states_not_self(o) = ListResult(<<>>)

\* C18 witness: the graph holds an edge, a state without neighbours is
\* contained and another state is not contained.
C18_Witness ==
    /\ edges # <<>>
    /\ \E o \in 1..nobj : InGraph(o) /\ NoNeighbours(state_indices_by_id[o])
    /\ \E o \in 1..nobj : ~InGraph(o)

\* the step is a call of match_trace that returns a path
IsMatchedPath == last'.op = "match_trace" /\ last'.res.kind = "list"

\* state is one of the outgoing states of from
IsOutgoing(state, from) ==
    LET out == get_outgoing_states(from)
    IN  /\ out.kind = "list"
        /\ \E k \in 1..Len(out.items) : out.items[k] = state

\* the path match_trace returns for a trace has one state per line, starts
\* at an outgoing state of start_node, follows the edges, and its i-th state
\* holds the template of the i-th line
PathFollowsTrace(trace, path) ==
    /\ Len(path) = Len(trace)
    /\ Len(path) > 0 => IsOutgoing(path[1], start_node)
    /\ \A i \in 2..Len(path) : IsOutgoing(path[i], path[i - 1])
    /\ \A i \in 1..Len(path) :
          /\ search(trace[i]) # None
          /\ template_matches_state(search(trace[i]), path[i])

\* C19 as stated: the path match_trace returns follows the trace, and
\* start_node is none of its states.
C19_PathWithoutRoot ==
    [][IsMatchedPath =>
          /\ PathFollowsTrace(last'.a, last'.res.items)
          /\ \A i \in 1..Len(last'.res.items) : last'.res.items[i] # start_node]_vars

\* C19 as amended: the path match_trace returns for a trace of n lines has n
\* states, the first an outgoing state of start_node and every next one an
\* outgoing state of the one before it, the i-th holding the template of the
\* i-th line; start_node is in it only where the walk reaches it over an edge.
C19_PathFollowsTrace ==
    [][IsMatchedPath => PathFollowsTrace(last'.a, last'.res.items)]_vars

\* C19 witness: match_trace has returned a path of three states.
C19_Witness ==
    /\ last.op = "match_trace"
    /\ last.res.kind = "list"
    /\ Len(last.res.items) = 3

IsMatch == last'.op = "match_trace"

\* C21: on a graph that contains its start_node, match_trace raises nothing,
\* returns None for a trace with a line that has no template, and returns
\* either None or a path of one state per line, never a part of one.
C21_NeverRaises ==
    [][(IsMatch /\ InGraph(start_node)) =>
          /\ last'.res.kind # "raise"
          /\ (\E i \in 1..Len(last'.a) : search(last'.a[i]) = None)
                => last'.res = NoneResult
          /\ last'.res.kind = "list"
                => Len(last'.res.items) = Len(last'.a)]_vars

\* the outgoing states of state that hold template, none where the query
\* get_outgoing_states returns no list
Candidates(state, template) ==
    LET out == get_outgoing_states(state)
    IN  IF out.kind = "list"
        THEN {c \in {out.items[k] : k \in 1..Len(out.items)} :
                 InList(template, properties[c].log_templates)}
        ELSE {}

RECURSIVE Unambiguous(_, _)
\* every line of trace has a template, and at every step of the walk from
\* the state from exactly one outgoing state holds it
Unambiguous(from, trace) ==
    \/ Len(trace) = 0
    \/ /\ search(trace[1]) # None
       /\ Cardinality(Candidates(from, search(trace[1]))) = 1
       /\ Unambiguous(CHOOSE c \in Candidates(from, search(trace[1])) : TRUE,
                      Tail(trace))

RECURSIVE UniqueWalk(_, _)
\* the states of that walk
UniqueWalk(from, trace) ==
    IF Len(trace) = 0 THEN <<>>
    ELSE LET c == CHOOSE x \in Candidates(from, search(trace[1])) : TRUE
         IN  <<c>> \o UniqueWalk(c, Tail(trace))

\* one of the outgoing states of state is terminal
HasTerminalNeighbour(state) ==
    LET out == get_outgoing_states(state)
    IN  /\ out.kind = "list"
        /\ \E k \in 1..Len(out.items) : is_terminal[out.items[k]]

\* C22: where every step of the walk has exactly one candidate, every run of
\* match_trace on the graph and the trace returns the result of this call,
\* and it is the path of the unique walk when the last state of that walk
\* has a terminal outgoing state.
C22_DeterministicIfUnambiguous ==
    [][(IsMatch /\ Unambiguous(start_node, last'.a)) =>
          /\ match_trace_results(last'.a) = {last'.res}
          /\ (/\ Len(last'.a) > 0
              /\ HasTerminalNeighbour(UniqueWalk(start_node, last'.a)[Len(last'.a)]))
                => last'.res = ListResult(UniqueWalk(start_node, last'.a))]_vars

\* C22 witness: start_node has two outgoing states, one of which holds the
\* template of the line, and match_trace has returned the path of that state.
C22_Witness ==
    /\ last.op = "match_trace"
    /\ Len(last.a) = 1
    /\ Unambiguous(start_node, last.a)
    /\ get_outgoing_states(start_node).kind = "list"
    /\ Len(get_outgoing_states(start_node).items) = 2
    /\ last.res = ListResult(UniqueWalk(start_node, last.a))

\* C23: a call of match_trace, whatever it returns, leaves the states map,
\* the identity-to-index map, the template list and the terminal flag of
\* every state, the adjacency entries, the interning table and start_node as
\* they were.
C23_MatchChangesNothing ==
    [][IsMatch =>
          /\ states' = states
          /\ state_indices_by_id' = state_indices_by_id
          /\ properties' = properties
          /\ is_terminal' = is_terminal
          /\ edges' = edges
          /\ prop_by_hash' = prop_by_hash
          /\ start_node' = start_node]_vars

\* C23 witness: match_trace has returned a path that takes a self-loop, in
\* a graph of two edges or more.
C23_Witness ==
    /\ last.op = "match_trace"
    /\ last.res.kind = "list"
    /\ Len(last.res.items) = 2
    /\ last.res.items[1] = last.res.items[2]
    /\ Len(edges) >= 2

\* C24: two states contained in the graph whose template lists are
\* identical reference the same StateProperties object, the one prop_by_hash
\* holds for the list, and two contained states whose template lists differ
\* reference different objects.
C24_InterningShared ==
    \A a \in DOMAIN state_indices_by_id, b \in DOMAIN state_indices_by_id :
        IF properties[a].log_templates = properties[b].log_templates
        THEN /\ properties[a] = properties[b]
             /\ get_prop_hash(properties[a]) \in DOMAIN prop_by_hash
             /\ prop_by_hash[get_prop_hash(properties[a])] = properties[a]
        ELSE properties[a] # properties[b]

\* C24 witness: merge_states has given its first state a list of two
\* templates that another contained state holds as well.
C24_Witness ==
    /\ last.op = "merge_states"
    /\ last.res = "ok"
    /\ Len(properties[last.a].log_templates) = 2
    /\ \E o \in DOMAIN state_indices_by_id \ {last.a} :
          properties[o].log_templates = properties[last.a].log_templates

\* every state of the states map is contained in the graph under the index
\* it is stored at
IdentityConsistent ==
    \A i \in DOMAIN states :
        /\ states[i] \in DOMAIN state_indices_by_id
        /\ state_indices_by_id[states[i]] = i

\* C25: the deep copy of a graph whose states are contained under their
\* indices has the same indices, at each index a state of the template list
\* and terminal flag of the original, the same edges, and its states are
\* contained in it under their indices.
C25_CopyKeepsIdentity ==
    [][(last'.op = "deepcopy" /\ IdentityConsistent) =>
          /\ DOMAIN states' = DOMAIN states
          /\ \A i \in DOMAIN states :
                /\ properties'[states'[i]].log_templates
                      = properties[states[i]].log_templates
                /\ is_terminal'[states'[i]] = is_terminal[states[i]]
          /\ edges' = edges
          /\ IdentityConsistent']_vars

RECURSIVE PathsBelow(_, _, _)
\* the template paths that lead down from state in the value g along at
\* most depth edges: the lists of the template lists of the states passed
PathsBelow(g, state, depth) ==
    {<<>>} \cup
    (IF depth = 0 THEN {}
     ELSE UNION {{<<g.properties[c].log_templates>> \o p :
                     p \in PathsBelow(g, c, depth - 1)} :
                 c \in {g.states[e[2]] : e \in {x \in EdgePairs(g.edges) :
                                          x[1] = g.state_indices_by_id[state]}}})

\* the root-to-node template paths of the tree
TreePaths(g) == PathsBelow(g, start_node, Cardinality(DOMAIN g.states))

RECURSIVE OtherPathTo(_, _)
\* the template path from the root of the tree other to its node k
OtherPathTo(other, k) ==
    IF k = 1 THEN <<>>
    ELSE OtherPathTo(other, other[k].parent) \o <<other[k].log_templates>>

\* the root-to-node template paths of the tree other
OtherPaths(other) == {OtherPathTo(other, k) : k \in 1..Len(other)}

\* the step is a call of merge that has not failed
IsTreeMerge == last'.op = "merge" /\ last'.res = "ok"

\* C26: merge(other) of two trees that each have one node per template
\* path gives a tree whose template paths are those of either tree, with
\* exactly one node per path.
C26_MergeIsTrieOfUnion ==
    [][(/\ IsTreeMerge
        /\ size = Cardinality(TreePaths(GraphNow))
        /\ Len(last'.a) = Cardinality(OtherPaths(last'.a))) =>
          /\ TreePaths(GraphNow') = TreePaths(GraphNow) \cup OtherPaths(last'.a)
          /\ size' = Cardinality(TreePaths(GraphNow'))]_vars

\* C26 witness: after a merge of a tree that shares the first node of a
\* chain and then differs, a state that is not the root has two children
\* and the tree has four states.
C26_Witness ==
    /\ last.op = "merge" /\ last.res = "ok"
    /\ size = 4
    /\ \E o \in DOMAIN state_indices_by_id \ {start_node} :
          Len(ChildrenIn(GraphNow, o)) = 2

\* C27: merge(other) with a root whose template list differs from that of
\* the root of the tree fails with InvalidTreeException and leaves the
\* states, the edges and the size of the tree as they were.
C27_DifferentRootsRejected ==
    [][(last'.op = "merge"
        /\ properties[start_node].log_templates # last'.a[1].log_templates) =>
          /\ last'.res = "InvalidTreeException"
          /\ states' = states
          /\ state_indices_by_id' = state_indices_by_id
          /\ edges' = edges
          /\ properties' = properties
          /\ size' = size]_vars

\* C27 witness: a merge of a tree of two nodes or more into a tree of two
\* states or more has failed with InvalidTreeException.
C27_Witness ==
    /\ last.op = "merge" /\ last.res = "InvalidTreeException"
    /\ Len(last.a) >= 2
    /\ size >= 2

RECURSIVE ReachableFrom(_, _)
\* the indices the edges lead to from the indices of the set within n steps
ReachableFrom(set, n) ==
    IF n = 0 THEN set
    ELSE ReachableFrom(set \cup {e[2] : e \in {x \in EdgePairs(edges) : x[1] \in set}},
                       n - 1)

\* C28: the tree is a rooted out-tree: no edge leads to the root, exactly
\* one edge leads to every other state, every edge joins two states of the
\* tree and every state is reached from the root.
C28_RootedOutTree ==
    LET root == state_indices_by_id[start_node]
    IN  /\ \A e \in EdgePairs(edges) : e[1] \in DOMAIN states /\ e[2] \in DOMAIN states
        /\ get_parents(edges, root) = <<>>
        /\ \A i \in DOMAIN states \ {root} :
              /\ Cardinality({e \in EdgePairs(edges) : e[2] = i}) = 1
              /\ Len(get_parents(edges, i)) = 1
        /\ ReachableFrom({root}, size) = DOMAIN states

\* C28 witness: a merge has spliced two states into a tree of three.
C28_Witness ==
    /\ last.op = "merge" /\ last.res = "ok"
    /\ size = 5


\* the states of the graph other than the two arguments of the call
Bystanders == DOMAIN state_indices_by_id \ {last'.a, last'.b}

\* C29: merge_states(a, b), for two distinct states of the graph, changes
\* nothing unrelated to the merge: every state of the graph other than a and
\* b keeps its index and its place in the states map, its template list and
\* its terminal flag, and every edge between two such states keeps its pair
\* and payload.
C29_MergeFrame ==
    [][IsMergeOfContained =>
          /\ \A o \in Bystanders :
                /\ o \in DOMAIN state_indices_by_id'
                /\ state_indices_by_id'[o] = state_indices_by_id[o]
                /\ (/\ state_indices_by_id[o] \in DOMAIN states
                    /\ states[state_indices_by_id[o]] = o) =>
                      /\ state_indices_by_id[o] \in DOMAIN states'
                      /\ states'[state_indices_by_id[o]] = o
                /\ properties'[o].log_templates = properties[o].log_templates
                /\ is_terminal'[o] = is_terminal[o]
          /\ \A i \in 1..Len(edges) :
                (\E x \in Bystanders, y \in Bystanders :
                    /\ state_indices_by_id[x] = get_values(edges[i])[1]
                    /\ state_indices_by_id[y] = get_values(edges[i])[2]) =>
                      \E j \in 1..Len(edges') : edges'[j] = edges[i]]_vars

RECURSIVE AcceptingWalk(_, _)
\* the graph has a walk from the state from whose states hold the templates
\* of the lines of trace, one after the other, and whose last state has a
\* terminal outgoing state
AcceptingWalk(from, trace) ==
    IF Len(trace) = 0 THEN HasTerminalNeighbour(from)
    ELSE /\ search(trace[1]) # None
         /\ \E c \in Candidates(from, search(trace[1])) :
               AcceptingWalk(c, Tail(trace))

RECURSIVE EveryWalkAccepts(_, _)
\* every walk from the state from along the templates of the lines of trace
\* can be continued to the last line and ends in a state with a terminal
\* outgoing state
EveryWalkAccepts(from, trace) ==
    IF Len(trace) = 0 THEN HasTerminalNeighbour(from)
    ELSE /\ search(trace[1]) # None
         /\ Candidates(from, search(trace[1])) # {}
         /\ \A c \in Candidates(from, search(trace[1])) :
               EveryWalkAccepts(c, Tail(trace))

C31_TraceUnchanged ==
    [][IsMatch =>
          /\ last'.b = last'.a
          /\ Unambiguous(start_node, last'.a)
                => match_trace_results(last'.b) = {last'.res}]_vars

\* the step is a call of build_from_dendrogram
IsBuild == last'.op = "build_from_dendrogram"

\* C32: for a tree whose n states hold the indices 0..n - 1 and a well-formed
\* dendrogram of k rows, every call of merge_states in the loop of
\* build_from_dendrogram gets two states of the working graph and raises
\* nothing, the graph returned has n - k states, and the states, the edges
\* and the State objects of the factory's own tree stay as they were.
C32_DendrogramMerges ==
    [][(/\ IsBuild
        /\ IdentityConsistent
        /\ DOMAIN states = 0..size - 1
        /\ last'.a \in Dendrograms(size)) =>
          /\ last'.res.kind = "graph"
          /\ Cardinality(DOMAIN last'.res.states) = size - Len(last'.a)
          /\ properties' = properties
          /\ is_terminal' = is_terminal
          /\ states' = states
          /\ edges' = edges]_vars

\* the states reached from start_node over the edges
ReachableStates ==
    {states[i] : i \in ReachableFrom({state_indices_by_id[start_node]}, size)}

\* C33: on a graph that contains its start_node, whose states are contained
\* under their indices and whose edges join indices of states,
\* Visualizer.__populate_graph raises nothing and returns labels for the
\* states reached from start_node, one for each.
C33_PopulateLabelsReachable ==
    [][(/\ last'.op = "populate_graph"
        /\ InGraph(start_node)
        /\ IdentityConsistent
        /\ C1_NoDanglingEdge) =>
          /\ last'.res.kind = "tuple"
          /\ DOMAIN last'.res.labels = ReachableStates]_vars

====
